---- MODULE Spec2Model ----
(***************************************************************************)
(* Model of sdmcraft/port-monitor: the lsof text parser, the memoized      *)
(* process-detail resolver, the inventory collector, the process signaler  *)
(* (src/port_info.py) and the self-port allocator (src/port_resolution.py).*)
(*                                                                         *)
(* Text is modelled as a sequence of one-character strings, so that        *)
(* strip(), split(), splitlines(), find(), rsplit() and int() are computed *)
(* character by character as Python computes them.                         *)
(***************************************************************************)
EXTENDS Integers, Sequences, FiniteSets, TLC

(***************************************************************************)
(* Python string primitives used by the source.                            *)
(***************************************************************************)

\* The whitespace of the modelled alphabet (str.strip / str.split with no argument).
IsSpace(c) == c \in {" ", "\t", "\n"}

\* str.strip(): leading whitespace removed.
RECURSIVE LStrip(_)
LStrip(s) ==
    IF s = <<>> THEN <<>>
    ELSE IF IsSpace(Head(s)) THEN LStrip(Tail(s)) ELSE s

\* str.strip(): trailing whitespace removed.
RECURSIVE RStrip(_)
RStrip(s) ==
    IF s = <<>> THEN <<>>
    ELSE IF IsSpace(s[Len(s)]) THEN RStrip(SubSeq(s, 1, Len(s) - 1)) ELSE s

\* str.strip()
Strip(s) == RStrip(LStrip(s))

\* The longest prefix of s without whitespace (one token of str.split()).
RECURSIVE TakeWord(_)
TakeWord(s) ==
    IF s = <<>> \/ IsSpace(Head(s)) THEN <<>>
    ELSE <<Head(s)>> \o TakeWord(Tail(s))

\* str.split(): the maximal runs of non-whitespace, in order.
RECURSIVE SplitWs(_)
SplitWs(s) ==
    LET t == LStrip(s)
        w == TakeWord(t)
    IN  IF t = <<>> THEN <<>>
        ELSE <<w>> \o SplitWs(SubSeq(t, Len(w) + 1, Len(t)))

\* The prefix of s before its first line break.
RECURSIVE TakeLine(_)
TakeLine(s) ==
    IF s = <<>> \/ Head(s) = "\n" THEN <<>>
    ELSE <<Head(s)>> \o TakeLine(Tail(s))

\* str.splitlines(): the lines of s, without their line breaks; a final line
\* break opens no empty last line.
RECURSIVE SplitLines(_)
SplitLines(s) ==
    IF s = <<>> THEN <<>>
    ELSE LET l == TakeLine(s)
         IN  <<l>> \o SplitLines(SubSeq(s, Len(l) + 2, Len(s)))

\* str.startswith(p)
StartsWith(s, p) == Len(s) >= Len(p) /\ SubSeq(s, 1, Len(p)) = p

\* str.endswith(p)
EndsWith(s, p) == Len(s) >= Len(p) /\ SubSeq(s, Len(s) - Len(p) + 1, Len(s)) = p

\* str.find(p) counted from 1: the first position where p occurs in s, 0 if none.
RECURSIVE FindFrom(_, _, _)
FindFrom(s, p, i) ==
    IF i + Len(p) - 1 > Len(s) THEN 0
    ELSE IF SubSeq(s, i, i + Len(p) - 1) = p THEN i
    ELSE FindFrom(s, p, i + 1)

Find(s, p) == FindFrom(s, p, 1)

\* str.rfind(p) counted from 1: the last position where p occurs in s, 0 if none.
RECURSIVE RFindFrom(_, _, _)
RFindFrom(s, p, i) ==
    IF i < 1 THEN 0
    ELSE IF SubSeq(s, i, i + Len(p) - 1) = p THEN i
    ELSE RFindFrom(s, p, i - 1)

RFind(s, p) == RFindFrom(s, p, Len(s) - Len(p) + 1)

\* p in s
Contains(s, p) == Find(s, p) > 0

\* sep.join(parts)
RECURSIVE Join(_, _)
Join(parts, sep) ==
    IF parts = <<>> THEN <<>>
    ELSE IF Len(parts) = 1 THEN parts[1]
    ELSE parts[1] \o sep \o Join(Tail(parts), sep)

Digits == {"0", "1", "2", "3", "4", "5", "6", "7", "8", "9"}

DigitVal(c) ==
    CASE c = "0" -> 0 [] c = "1" -> 1 [] c = "2" -> 2 [] c = "3" -> 3
      [] c = "4" -> 4 [] c = "5" -> 5 [] c = "6" -> 6 [] c = "7" -> 7
      [] c = "8" -> 8 [] c = "9" -> 9

\* str.isdigit(): non-empty and digits only.
IsDigitStr(s) == s # <<>> /\ \A i \in 1..Len(s) : s[i] \in Digits

\* The digits of an int() literal: digits, with single underscores allowed
\* between two digits.
IsIntBody(s) ==
    /\ s # <<>>
    /\ \A i \in 1..Len(s) : s[i] \in Digits \cup {"_"}
    /\ \A i \in 1..Len(s) :
          s[i] = "_" => /\ i > 1 /\ i < Len(s)
                        /\ s[i - 1] \in Digits /\ s[i + 1] \in Digits

\* Whether int(s) returns (True) or raises ValueError (False): surrounding
\* whitespace is ignored, then an optional sign, then the digits.
IntParses(s) ==
    LET t == Strip(s)
    IN  /\ t # <<>>
        /\ IF t[1] \in {"+", "-"} THEN IsIntBody(Tail(t)) ELSE IsIntBody(t)

RECURSIVE NatOf(_, _)
NatOf(s, acc) ==
    IF s = <<>> THEN acc
    ELSE IF Head(s) = "_" THEN NatOf(Tail(s), acc)
    ELSE NatOf(Tail(s), 10 * acc + DigitVal(Head(s)))

\* int(s), for an s that IntParses.
IntOf(s) ==
    LET t == Strip(s)
    IN  IF t[1] = "-" THEN 0 - NatOf(Tail(t), 0)
        ELSE IF t[1] = "+" THEN NatOf(Tail(t), 0)
        ELSE NatOf(t, 0)

\* str(n) for an integer n.
RECURSIVE NatStr(_)
NatStr(n) ==
    LET d == CHOOSE c \in Digits : DigitVal(c) = n % 10
    IN  IF n < 10 THEN <<d>> ELSE NatStr(n \div 10) \o <<d>>

StrOf(n) == IF n < 0 THEN <<"-">> \o NatStr(0 - n) ELSE NatStr(n)

(***************************************************************************)
(* _split_host_port (src/port_info.py:37-71)                               *)
(***************************************************************************)

\* address.split("->", 1)[0]: the text before the first arrow.
BeforeArrow(address) ==
    IF Contains(address, <<"-", ">">>)
    THEN SubSeq(address, 1, Find(address, <<"-", ">">>) - 1)
    ELSE address

\* A variant of RSplitColon: splits on the first colon, not the last.
SplitFirstColon(h) ==
    LET k == Find(h, <<":">>)
    IN  [host |-> SubSeq(h, 1, k - 1), port |-> SubSeq(h, k + 1, Len(h))]

\* host.rsplit(":", 1) for a host that contains a colon.
RSplitColon(h) ==
    LET k == RFind(h, <<":">>)
    IN  [host |-> SubSeq(h, 1, k - 1), port |-> SubSeq(h, k + 1, Len(h))]

\* The bracketed branch: host[1:closing], and the port after "]:".
BracketSplit(h) ==
    LET closing == Find(h, <<"]">>)
        tail == SubSeq(h, closing + 1, Len(h))
    IN  [host |-> SubSeq(h, 2, closing - 1),
         port |-> IF StartsWith(tail, <<":">>) THEN Tail(tail) ELSE <<>>]

\* _split_host_port(address)
SplitHostPort(address) ==
    IF address = <<>> THEN [host |-> <<>>, port |-> <<>>]
    ELSE LET h == BeforeArrow(address)
             r == IF StartsWith(h, <<"[">>) /\ Contains(h, <<"]">>)
                  THEN BracketSplit(h)
                  ELSE IF Contains(h, <<":">>) THEN RSplitColon(h)
                  ELSE [host |-> h, port |-> <<>>]
         IN  [host |-> IF r.host = <<>> THEN address ELSE r.host,
              port |-> r.port]

(***************************************************************************)
(* functools.lru_cache (src/port_info.py:179, 239): a bounded memo in      *)
(* recency order, least recently used first.  A cache is                   *)
(*   [ents |-> <<[key, val, first], ...>>, runs |-> [key |-> Nat]]         *)
(* where first (the value returned by the lookup that created the entry)   *)
(* and runs (how often the utility was spawned for the key since the key   *)
(* was last evicted) are history kept for the properties.                  *)
(***************************************************************************)

\* The capacity of each cache.  The source sets maxsize=1024; the model
\* checks a cache of this many entries.
CacheSize == 2

\* The pids process details are asked for.
AllPids == {0, 12, 34}

Fields == {"ppid=", "command="}

\* Keys of the _get_process_field cache: (pid, field); of _get_process_cwd: (pid).
FieldKeys == {<<p, f>> : p \in AllPids, f \in Fields}
CwdKeys == {<<p>> : p \in AllPids}

EmptyCache(keys) == [ents |-> <<>>, runs |-> [k \in keys |-> 0]]

CacheKeys(c) == {c.ents[i].key : i \in 1..Len(c.ents)}

CacheHas(c, k) == k \in CacheKeys(c)

CacheIndex(c, k) == CHOOSE i \in 1..Len(c.ents) : c.ents[i].key = k

CacheGet(c, k) == c.ents[CacheIndex(c, k)].val

Without(s, i) == SubSeq(s, 1, i - 1) \o SubSeq(s, i + 1, Len(s))

\* A variant of CacheTouch: a hit drops every other entry.
CacheTouchDropping(c, k) == [c EXCEPT !.ents = << c.ents[CacheIndex(c, k)] >>]

\* A hit makes the entry the most recently used one.
CacheTouch(c, k) ==
    LET i == CacheIndex(c, k)
    IN  [c EXCEPT !.ents = Without(c.ents, i) \o <<c.ents[i]>>]

\* A variant of CacheStore: storing a result drops every other entry.
CacheStoreClearing(c, k, v) ==
    [c EXCEPT !.ents = << [key |-> k, val |-> v, first |-> v] >>]

\* A miss stores the result; a full cache first drops its least recently used entry.
CacheStore(c, k, v) ==
    LET e == [key |-> k, val |-> v, first |-> v]
    IN  IF Len(c.ents) >= CacheSize
        THEN [ents |-> Tail(c.ents) \o <<e>>,
              runs |-> [c.runs EXCEPT ![Head(c.ents).key] = 0]]
        ELSE [c EXCEPT !.ents = Append(c.ents, e)]

\* A variant of LruCall: the wrapped function runs on every call and its result
\* replaces the entry.
LruCallAlways(c, k, body) ==
    LET c0 == IF CacheHas(c, k)
              THEN [c EXCEPT !.ents = Without(c.ents, CacheIndex(c, k))]
              ELSE c
        c1 == [c0 EXCEPT !.runs[k] = @ + (IF body.spawned THEN 1 ELSE 0)]
        first == IF CacheHas(c, k) THEN c.ents[CacheIndex(c, k)].first ELSE body.val
    IN  IF body.exc # "none"
        THEN [cache |-> c1, exc |-> body.exc, val |-> <<>>,
              had |-> CacheHas(c, k), spawned |-> body.spawned]
        ELSE [cache |-> [c1 EXCEPT !.ents =
                            Append(c1.ents, [key |-> k, val |-> body.val, first |-> first])],
              exc |-> "none", val |-> body.val,
              had |-> CacheHas(c, k), spawned |-> body.spawned]

\* One call of an lru_cache-wrapped function with key k, where body is what the
\* wrapped function does if it runs: [exc, val, spawned].  An exception of the
\* wrapped function propagates and nothing is stored.
LruCall(c, k, body) ==
    IF CacheHas(c, k)
    THEN [cache |-> CacheTouch(c, k), exc |-> "none", val |-> CacheGet(c, k),
          had |-> TRUE, spawned |-> FALSE]
    ELSE LET c1 == [c EXCEPT !.runs[k] = @ + (IF body.spawned THEN 1 ELSE 0)]
         IN  IF body.exc # "none"
             THEN [cache |-> c1, exc |-> body.exc, val |-> <<>>,
                   had |-> FALSE, spawned |-> body.spawned]
             ELSE [cache |-> CacheStore(c1, k, body.val), exc |-> "none",
                   val |-> body.val, had |-> FALSE, spawned |-> body.spawned]

\* What a lookup did, for the log of a call.
LookupEntry(name, k, r) ==
    [cache |-> name, key |-> k, had |-> r.had, val |-> r.val,
     exc |-> r.exc, spawned |-> r.spawned]

(***************************************************************************)
(* The external utilities, as seen through subprocess.run(check=True) and  *)
(* shutil.which.                                                           *)
(***************************************************************************)

\* ps -p <pid> -o <field>: exit 0 with some output, a non-zero exit
\* (CalledProcessError), or no ps executable (FileNotFoundError).
PsOutcomes(field) ==
    { [kind |-> "nonzero", stdout |-> <<>>], [kind |-> "notfound", stdout |-> <<>>] }
    \cup
    { [kind |-> "exit0", stdout |-> s] :
        s \in IF field = "ppid="
              THEN { <<" ", " ", "1", "\n">>, <<"\n">>, <<"-", "\n">> }
              ELSE { <<"/", "p", " ", "x", "\n">>, <<>> } }

\* lsof -a -p <pid> -d cwd -Fn: shutil.which finds lsof or not; then exit 0
\* with some output, or a non-zero exit.
CwdOutcomes ==
    { [which |-> FALSE, kind |-> "nonzero", stdout |-> <<>>],
      [which |-> TRUE, kind |-> "nonzero", stdout |-> <<>>] }
    \cup
    { [which |-> TRUE, kind |-> "exit0", stdout |-> s] :
        s \in { <<"p", "1", "\n", "f", "c", "\n", "n", "/", "d", "\n">>,
                <<"p", "1", "\n">> } }

(***************************************************************************)
(* ProcessDetailResolver (src/port_info.py:179-294)                        *)
(***************************************************************************)

\* The body of _get_process_field for one outcome of ps.
GetProcessFieldBody(o) ==
    IF o.kind = "exit0"
    THEN [exc |-> "none", val |-> Strip(o.stdout), spawned |-> TRUE]
    ELSE IF o.kind = "nonzero"
    THEN [exc |-> "none", val |-> <<>>, spawned |-> TRUE]
    ELSE [exc |-> "FileNotFoundError", val |-> <<>>, spawned |-> FALSE]

\* _get_parent_pid: int(value) if value.isdigit() else None.  An optional
\* integer is a sequence of length at most one: <<>> is None.
ParentPidOf(value) == IF IsDigitStr(value) THEN <<IntOf(value)>> ELSE <<>>

\* The loop of _get_process_cwd: the first line that starts with "n", without it.
RECURSIVE FirstNameLine(_)
FirstNameLine(ls) ==
    IF ls = <<>> THEN <<>>
    ELSE IF StartsWith(Head(ls), <<"n">>) THEN Strip(Tail(Head(ls)))
    ELSE FirstNameLine(Tail(ls))

\* The body of _get_process_cwd for one outcome of which and lsof.
GetProcessCwdBody(o) ==
    IF ~o.which
    THEN [exc |-> "PortFetchError", val |-> <<>>, spawned |-> FALSE]
    ELSE IF o.kind = "nonzero"
    THEN [exc |-> "none", val |-> <<>>, spawned |-> TRUE]
    ELSE [exc |-> "none", val |-> FirstNameLine(SplitLines(o.stdout)), spawned |-> TRUE]

NoDetails == [ppid |-> <<>>, command_path |-> <<>>, cwd |-> <<>>]

(***************************************************************************)
(* Bounds and input alphabets.                                             *)
(***************************************************************************)

\* The largest number of segments an address of SpecSplit is built from.
MaxSegs == 4

\* The pieces addresses are built from: every character _split_host_port
\* looks at, alone and in the combinations lsof prints.
Segments ==
    { <<"[">>, <<"]">>, <<":">>, <<"-", ">">>, <<"-">>,
      <<"h">>, <<"8", "0">>,
      <<"[", ":", ":", "1", "]">>,
      <<"h", ":", "8", "0">> }

RECURSIVE Flatten(_)
Flatten(ss) == IF ss = <<>> THEN <<>> ELSE Head(ss) \o Flatten(Tail(ss))

Addresses ==
    { Flatten(ss) : ss \in UNION { [1..n -> Segments] : n \in 0..MaxSegs } }

\* The pids the resolver is called with directly in SpecResolver.
ResolverPids == {12, 34}

\* The largest number of lines of an lsof output of SpecCollect.
MaxLines == 3

\* The lines lsof output is made of.  Each is given by its tokens, and is
\* written out with the padding (lead, trail) and the column separator (sep)
\* shown: lsof pads its columns.
RowBlank == [toks |-> <<>>, lead |-> <<" ">>, sep |-> <<" ">>, trail |-> <<>>]

\* COMMAND PID USER FD TYPE DEVICE SIZE/OFF NODE NAME
RowHeader ==
    [toks |-> << <<"C">>, <<"P", "I", "D">>, <<"U">>, <<"F">>, <<"Y">>, <<"D">>,
                 <<"S">>, <<"N">>, <<"A">> >>,
     lead |-> <<>>, sep |-> <<" ", " ">>, trail |-> <<>>]

FixedCols(pid, node) ==
    << <<"p", "y">>, pid, <<"u">>, <<"3", "u">>, <<"v", "4">>, <<"d">>, <<"0">>, node >>

\* py 12 u 3u v4 d 0 T *:80 (L)
RowListen ==
    [toks |-> FixedCols(<<"1", "2">>, <<"T">>)
                \o << <<"*", ":", "8", "0">>, <<"(", "L", ")">> >>,
     lead |-> <<" ">>, sep |-> <<" ", "\t">>, trail |-> <<" ">>]

\* Eight tokens: no NAME column.
RowEight ==
    [toks |-> FixedCols(<<"1", "2">>, <<"T">>),
     lead |-> <<>>, sep |-> <<" ">>, trail |-> <<>>]

\* Seven tokens.
RowSeven ==
    [toks |-> SubSeq(FixedCols(<<"1", "2">>, <<"T">>), 1, 7),
     lead |-> <<>>, sep |-> <<" ">>, trail |-> <<>>]

\* Nine tokens, the ninth a parenthesized state.
RowStateOnly ==
    [toks |-> FixedCols(<<"1", "2">>, <<"T">>) \o << <<"(", "L", ")">> >>,
     lead |-> <<>>, sep |-> <<" ">>, trail |-> <<>>]

\* A pid column of 0.
RowPidZero ==
    [toks |-> FixedCols(<<"0">>, <<"U">>) \o << <<"*", ":", "*">> >>,
     lead |-> <<>>, sep |-> <<" ">>, trail |-> <<>>]

\* A NAME whose port is a service name.
RowService ==
    [toks |-> FixedCols(<<"1", "2">>, <<"T">>) \o << <<"h", ":", "s", "s", "h">> >>,
     lead |-> <<>>, sep |-> <<" ">>, trail |-> <<>>]

RowSpecs ==
    { RowBlank, RowHeader, RowListen, RowEight, RowSeven, RowStateOnly,
      RowPidZero, RowService }

\* One line as lsof writes it.
Render(r) == r.lead \o Join(r.toks, r.sep) \o r.trail \o <<"\n">>

\* The stdout made of the lines rs.
RenderAll(rs) == Flatten([i \in 1..Len(rs) |-> Render(rs[i])])

RowSeqs == UNION { [1..n -> RowSpecs] : n \in 0..MaxLines }

\* What lsof writes to stderr when it fails.
Stderrs == { <<>>, <<" ", "\n">>, <<"d", "e", "n", "i", "e", "d", "\n">> }

\* "Failed to collect port information."
GenericMsg == <<"F", "a", "i", "l", "e", "d">>

\* "The 'lsof' command is required but was not found on this system."
LsofMissingMsg == <<"n", "o", " ", "l", "s", "o", "f">>

(***************************************************************************)
(* _parse_lsof_output (src/port_info.py:74-146)                            *)
(***************************************************************************)

\* [line.strip() for line in output.splitlines() if line.strip()]
NonBlankLines(output) ==
    LET ls == SplitLines(output)
        IsFull(l) == Strip(l) # <<>>
        kept == SelectSeq(ls, IsFull)
    IN  [i \in 1..Len(kept) |-> Strip(kept[i])]

\* The number of columns a row needs.
MinParts == 9

\* A variant of TooFewParts: rows of eight tokens pass.
TooFewPartsEight(parts) == Len(parts) < 8

\* len(parts) < 9
TooFewParts(parts) == Len(parts) < MinParts

\* name_parts[-1].startswith("(") and name_parts[-1].endswith(")")
HasState(name_parts) ==
    /\ name_parts # <<>>
    /\ StartsWith(name_parts[Len(name_parts)], <<"(">>)
    /\ EndsWith(name_parts[Len(name_parts)], <<")">>)

\* The locals of the loop body up to the pid conversion (lines 103-113).
RowLocals(parts) ==
    LET name_parts == SubSeq(parts, 9, Len(parts))
        last == name_parts[Len(name_parts)]
        state == IF HasState(name_parts) THEN SubSeq(last, 2, Len(last) - 1) ELSE <<>>
        names == IF HasState(name_parts)
                 THEN SubSeq(name_parts, 1, Len(name_parts) - 1)
                 ELSE name_parts
        address == Join(names, <<" ">>)
        hp == SplitHostPort(address)
    IN  [command |-> parts[1], pid_str |-> parts[2], user |-> parts[3],
         fd |-> parts[4], type |-> parts[5], device |-> parts[6],
         size_off |-> parts[7], node |-> parts[8], state |-> state,
         address |-> address, host |-> hp.host, port |-> hp.port]

\* pid = int(pid_str) returns; otherwise ValueError and the row is skipped.
PidAccepted(pid_str) == IntParses(pid_str)

\* The dict appended for a row (lines 123-144).
MakeEntry(loc, d) ==
    [command |-> loc.command,
     pid |-> IntOf(loc.pid_str),
     ppid |-> d.ppid,
     user |-> loc.user,
     fd |-> loc.fd,
     type |-> loc.type,
     protocol |-> loc.node,
     address |-> loc.address,
     host |-> loc.host,
     port |-> loc.port,
     state |-> loc.state,
     full_command |-> IF d.command_path # <<>> THEN d.command_path ELSE loc.command,
     cwd |-> d.cwd,
     details |-> [device |-> loc.device, size_off |-> loc.size_off, node |-> loc.node]]

\* A variant of AppendEntry: a row equal to one already listed is not listed again.
AppendUnique(es, e) == IF \E i \in 1..Len(es) : es[i] = e THEN es ELSE Append(es, e)

\* entries.append(...)
AppendEntry(es, e) == Append(es, e)

NoLocals ==
    [command |-> <<>>, pid_str |-> <<>>, user |-> <<>>, fd |-> <<>>, type |-> <<>>,
     device |-> <<>>, size_off |-> <<>>, node |-> <<>>, state |-> <<>>,
     address |-> <<>>, host |-> <<>>, port |-> <<>>]

\* A variant of CollectionMsg: an empty stderr is passed on as it is.
CollectionMsgNoFallback(stderr) == Strip(stderr)

\* exc.stderr.strip() or "Failed to collect port information." (line 175)
CollectionMsg(stderr) == IF Strip(stderr) # <<>> THEN Strip(stderr) ELSE GenericMsg

(***************************************************************************)
(* kill_process (src/port_info.py:297-319)                                 *)
(***************************************************************************)

\* The largest pid a signal is asked for in SpecKill; the smallest is -1.
MaxKillPid == 9

KillPids == (0 - 1)..MaxKillPid

\* signal.SIGTERM, signal.SIGKILL
Signals == {15, 9}

\* What os.kill(pid, sig) can do: return, or raise one of these.
KillOutcomes == {"ok", "ProcessLookupError", "PermissionError", "OSError", "OverflowError"}

\* A variant of KillStatus: a missing privilege is reported like any other failure.
KillStatusNoPermission(out) ==
    IF out = "ok" THEN "ok"
    ELSE IF out = "ProcessLookupError" THEN "404"
    ELSE "500"

\* The except clauses, in order: 404, 403, then 500 for any other Exception.
KillStatus(out) ==
    IF out = "ok" THEN "ok"
    ELSE IF out = "ProcessLookupError" THEN "404"
    ELSE IF out = "PermissionError" THEN "403"
    ELSE "500"

\* The description given to abort(): the 500 one carries the text of the exception.
KillDescription(out) ==
    IF out = "ok" THEN <<>>
    ELSE IF out = "ProcessLookupError" THEN <<"was not found">>
    ELSE IF out = "PermissionError" THEN <<"insufficient permissions">>
    ELSE <<"failed to signal", out>>

(***************************************************************************)
(* find_available_port, resolve_run_port (src/port_resolution.py)          *)
(***************************************************************************)

\* max_attempts
MaxAttempts == 50

\* socket.bind accepts ports 0..65535 and raises OverflowError for any other.
MaxPort == 65535

\* The preferred ports resolve_run_port is called with.
Preferreds == {5000, 65530}

\* An optional text is a sequence of length at most one: <<>> is an unset
\* variable.  The values PORTER_ASSIGNED_PORT has when the process starts.
EnvStart ==
    { <<>>, << <<>> >>, << <<"5", "0", "0", "0">> >>, << <<"a", "b", "c">> >>,
      << <<"-", "5">> >>, << <<" ", "8", "0">> >> }

\* A variant of AssignedUsable: the remembered port is never used.
AssignedNever(e) == FALSE

\* "if assigned:" and int(assigned) returns.
AssignedUsable(e) == e # <<>> /\ e[1] # <<>> /\ IntParses(e[1])

\* A variant of EnvAfterRead: a value that is not a number stays.
EnvKept(e) == e

\* The variable after lines 61-66: popped if it is set, not empty and not a number.
EnvAfterRead(e) ==
    IF e # <<>> /\ e[1] # <<>> /\ ~IntParses(e[1]) THEN <<>> ELSE e

\* A variant of NextCandidate: every other port is tried.
NextCandidateSkip(c) == c + 2

\* candidate += 1 (line 40)
NextCandidate(c) == c + 1

\* A variant of StoredText: the text is padded.
StoredTextPadded(port) == << <<" ">> \o StrOf(port) >>

\* os.environ[ASSIGNED_PORT_ENV] = str(port) (line 69)
StoredText(port) == <<StrOf(port)>>

(***************************************************************************)
(* api_kill, api_force_kill (src/app.py:206-233)                           *)
(***************************************************************************)

\* What a request body gives for payload.get("pid"): nothing (no JSON, an empty
\* object or an object without "pid"), null, an integer, a number with a
\* fraction (num is its integer part), a string, a boolean (num is int() of
\* it), a list; or the body is JSON that is not an object.
NoBody == [kind |-> "absent", num |-> 0, text |-> <<>>]

Bodies ==
    { NoBody, [kind |-> "null", num |-> 0, text |-> <<>>],
      [kind |-> "list", num |-> 0, text |-> <<>>],
      [kind |-> "notdict", num |-> 0, text |-> <<>>] }
    \cup { [kind |-> "int", num |-> n, text |-> <<>>] : n \in KillPids }
    \cup { [kind |-> "float", num |-> n, text |-> <<>>] : n \in {0, 3} }
    \cup { [kind |-> "bool", num |-> n, text |-> <<>>] : n \in {0, 1} }
    \cup { [kind |-> "str", num |-> 0, text |-> t] :
              t \in { <<"1", "2">>, <<"-", "1">>, <<"a", "b", "c">>, <<>> } }

Routes == {"kill", "force-kill"}

\* signal.SIGTERM for /api/kill, signal.SIGKILL for /api/force-kill.
RouteSignal(route) == IF route = "kill" THEN 15 ELSE 9

\* "pid is None": abort(400).
PidMissing(b) == b.kind \in {"absent", "null"}

\* int(pid) returns: no TypeError, no ValueError.
PidConverts(b) ==
    \/ b.kind \in {"int", "float", "bool"}
    \/ b.kind = "str" /\ IntParses(b.text)

\* pid_int = int(pid)
PidInt(b) == IF b.kind = "str" THEN IntOf(b.text) ELSE b.num

(***************************************************************************)
(* Parallel requests: the threads of the server that call                  *)
(* _get_process_field at the same time.                                    *)
(***************************************************************************)

Threads == {1, 2}

\* The keys the threads look up.
ThreadKeys == { <<12, "ppid=">>, <<12, "command=">>, <<34, "ppid=">> }

VARIABLES
    spPc,       \* _split_host_port: "idle" before the call, "done" after it
    spAddr,     \* its argument
    spOut,      \* its return value [host, port]
    fieldCache, \* the lru_cache of _get_process_field
    cwdCache,   \* the lru_cache of _get_process_cwd
    lookups,    \* the cache lookups of the current resolver call, in order
    dOp,        \* the resolver call: "none", "details", "ppid", "command", "cwd"
    dPc,        \* where it is: "idle", "ppid", "command", "cwd", "returned", "raised"
    dPid,       \* its pid
    dExc,       \* the exception it raised, "none" otherwise
    dOut,       \* the details gathered so far; complete when dPc = "returned"
    pc,         \* collect_ports: "idle", "loop", "details", "done", "failed", "raised"
    srcRows,    \* the lines lsof wrote, as their tokens and padding
    output,     \* completed.stdout
    cStderr,    \* exc.stderr of a failed lsof
    lines,      \* the local lines of _parse_lsof_output
    idx,        \* the position of the loop in lines
    headerSkipped, \* header_skipped
    cur,        \* the locals of the row being parsed
    entries,    \* the local entries
    disp,       \* what became of each line the loop has left: "header", "short", "badpid", "record"
    cExc,       \* the exception collect_ports raised, "none" otherwise
    cMsg,       \* its message
    cResult,    \* the list collect_ports returned
    lsofRuns,   \* how often this call spawned lsof for the inventory
    kPc,        \* kill_process: "idle", "trying", "done"
    kPid,       \* its pid
    kSig,       \* its signal
    kLog,       \* the os.kill attempts of this call: <<pid, sig, outcome>>
    kStatus,    \* "ok" if it returned, else the status it aborted with
    kDesc,      \* the description it aborted with
    env,        \* os.environ[PORTER_ASSIGNED_PORT], an optional text
    rPc,        \* resolve_run_port: "idle", "probe", "returned", "raised"
    rPreferred, \* preferred
    rEnv0,      \* the variable as it was when the call started
    candidate,  \* candidate of find_available_port
    attempts,   \* attempts of find_available_port
    binds,      \* the ports this call tried to bind, in order
    rResult,    \* the port the call returned
    rExc,       \* the exception the call raised, "none" otherwise
    aPc,        \* api_kill / api_force_kill: "idle", "killing", "responded"
    aRoute,     \* the route of the request: "kill" or "force-kill"
    aBody,      \* the JSON body of the request
    aStatus,    \* the status of the response: "none", "200", "400", "403", "404", "500"
    tPc,        \* per thread, a _get_process_field call: "idle", "running", "store", "returned", "raised"
    tKey,       \* per thread, its key (pid, field)
    tVal,       \* per thread, the value it computed or found
    tExc        \* per thread, the exception it raised, "none" otherwise

splitVars == <<spPc, spAddr, spOut>>
cacheVars == <<fieldCache, cwdCache>>
resolverVars == <<lookups, dOp, dPc, dPid, dExc, dOut>>
collectVars == <<pc, srcRows, output, cStderr, lines, idx, headerSkipped, cur,
                 entries, disp, cExc, cMsg, cResult, lsofRuns>>
killVars == <<kPc, kPid, kSig, kLog, kStatus, kDesc>>
resolveVars == <<env, rPc, rPreferred, rEnv0, candidate, attempts, binds, rResult, rExc>>

apiVars == <<aPc, aRoute, aBody, aStatus>>
threadVars == <<tPc, tKey, tVal, tExc>>

vars == <<splitVars, cacheVars, resolverVars, collectVars, killVars, resolveVars,
          apiVars, threadVars>>

SplitIdle == spPc = "idle" /\ spAddr = <<>> /\ spOut = [host |-> <<>>, port |-> <<>>]

CachesEmpty ==
    /\ fieldCache = EmptyCache(FieldKeys)
    /\ cwdCache = EmptyCache(CwdKeys)

ResolverIdle ==
    /\ lookups = <<>>
    /\ dOp = "none"
    /\ dPc = "idle"
    /\ dPid = 0
    /\ dExc = "none"
    /\ dOut = NoDetails

CollectIdle ==
    /\ pc = "idle"
    /\ srcRows = <<>>
    /\ output = <<>>
    /\ cStderr = <<>>
    /\ lines = <<>>
    /\ idx = 1
    /\ headerSkipped = FALSE
    /\ cur = NoLocals
    /\ entries = <<>>
    /\ disp = <<>>
    /\ cExc = "none"
    /\ cMsg = <<>>
    /\ cResult = <<>>
    /\ lsofRuns = 0

KillIdle ==
    /\ kPc = "idle"
    /\ kPid = 0
    /\ kSig = 0
    /\ kLog = <<>>
    /\ kStatus = "none"
    /\ kDesc = <<>>

ApiIdle ==
    /\ aPc = "idle"
    /\ aRoute = "none"
    /\ aBody = NoBody
    /\ aStatus = "none"

ThreadsIdle ==
    /\ tPc = [t \in Threads |-> "idle"]
    /\ tKey = [t \in Threads |-> <<>>]
    /\ tVal = [t \in Threads |-> <<>>]
    /\ tExc = [t \in Threads |-> "none"]

ResolveIdle ==
    /\ rPc = "idle"
    /\ rPreferred = 0
    /\ rEnv0 = <<>>
    /\ candidate = 0
    /\ attempts = 0
    /\ binds = <<>>
    /\ rResult = 0
    /\ rExc = "none"

(***************************************************************************)
(* ProcessDetailResolver: the steps of a call.  _get_process_details       *)
(* evaluates its dict display in order: _get_parent_pid, then              *)
(* _get_process_command, then _get_process_cwd; the first exception ends   *)
(* the call.  The three functions are also called on their own.            *)
(***************************************************************************)

\* The step after a lookup that returned, for each kind of call.
AfterStep(op, step) ==
    IF op = "details" /\ step = "ppid" THEN "command"
    ELSE IF op = "details" /\ step = "command" THEN "cwd"
    ELSE "returned"

\* A call starts: the state of a call of kind op for pid.
StartResolver(op, pid) ==
    /\ lookups' = <<>>
    /\ dOp' = op
    /\ dPc' = IF op = "details" THEN "ppid" ELSE op
    /\ dPid' = pid
    /\ dExc' = "none"
    /\ dOut' = NoDetails

\* _get_parent_pid(pid): _get_process_field(pid, "ppid="), then the conversion.
LookupPpid ==
    /\ dPc = "ppid"
    /\ \E o \in PsOutcomes("ppid=") :
        LET r == LruCall(fieldCache, <<dPid, "ppid=">>, GetProcessFieldBody(o))
        IN  /\ fieldCache' = r.cache
            /\ lookups' = Append(lookups, LookupEntry("field", <<dPid, "ppid=">>, r))
            /\ dExc' = r.exc
            /\ dPc' = IF r.exc # "none" THEN "raised" ELSE AfterStep(dOp, "ppid")
            /\ dOut' = IF r.exc # "none" THEN dOut
                       ELSE [dOut EXCEPT !.ppid = ParentPidOf(r.val)]
    /\ UNCHANGED <<cwdCache, dOp, dPid>>
    /\ UNCHANGED <<splitVars, collectVars, killVars, resolveVars, apiVars, threadVars>>

\* _get_process_command(pid): _get_process_field(pid, "command=").
LookupCommand ==
    /\ dPc = "command"
    /\ \E o \in PsOutcomes("command=") :
        LET r == LruCall(fieldCache, <<dPid, "command=">>, GetProcessFieldBody(o))
        IN  /\ fieldCache' = r.cache
            /\ lookups' = Append(lookups, LookupEntry("field", <<dPid, "command=">>, r))
            /\ dExc' = r.exc
            /\ dPc' = IF r.exc # "none" THEN "raised" ELSE AfterStep(dOp, "command")
            /\ dOut' = IF r.exc # "none" THEN dOut
                       ELSE [dOut EXCEPT !.command_path = r.val]
    /\ UNCHANGED <<cwdCache, dOp, dPid>>
    /\ UNCHANGED <<splitVars, collectVars, killVars, resolveVars, apiVars, threadVars>>

\* _get_process_cwd(pid)
LookupCwd ==
    /\ dPc = "cwd"
    /\ \E o \in CwdOutcomes :
        LET r == LruCall(cwdCache, <<dPid>>, GetProcessCwdBody(o))
        IN  /\ cwdCache' = r.cache
            /\ lookups' = Append(lookups, LookupEntry("cwd", <<dPid>>, r))
            /\ dExc' = r.exc
            /\ dPc' = IF r.exc # "none" THEN "raised" ELSE AfterStep(dOp, "cwd")
            /\ dOut' = IF r.exc # "none" THEN dOut
                       ELSE [dOut EXCEPT !.cwd = r.val]
    /\ UNCHANGED <<fieldCache, dOp, dPid>>
    /\ UNCHANGED <<splitVars, collectVars, killVars, resolveVars, apiVars, threadVars>>

(***************************************************************************)
(* collect_ports and the loop of _parse_lsof_output, one step per path of  *)
(* the loop body.                                                          *)
(***************************************************************************)

\* _get_lsof_path raises: shutil.which finds no lsof.
CollectNoLsof ==
    /\ pc = "idle"
    /\ pc' = "failed"
    /\ cExc' = "PortFetchError"
    /\ cMsg' = LsofMissingMsg
    /\ UNCHANGED <<srcRows, output, cStderr, lines, idx, headerSkipped, cur,
                   entries, disp, cResult, lsofRuns>>
    /\ UNCHANGED <<cacheVars, resolverVars, splitVars, killVars, resolveVars, apiVars, threadVars>>

\* lsof exits non-zero: CalledProcessError becomes PortFetchError.
CollectLsofFails ==
    /\ pc = "idle"
    /\ \E e \in Stderrs :
          /\ cStderr' = e
          /\ cMsg' = CollectionMsg(e)
    /\ lsofRuns' = lsofRuns + 1
    /\ pc' = "failed"
    /\ cExc' = "PortFetchError"
    /\ UNCHANGED <<srcRows, output, lines, idx, headerSkipped, cur, entries, disp,
                   cResult>>
    /\ UNCHANGED <<cacheVars, resolverVars, splitVars, killVars, resolveVars, apiVars, threadVars>>

\* lsof exits 0: _parse_lsof_output starts on its stdout (lines 87-92).
CollectLsofOk ==
    /\ pc = "idle"
    /\ \E rs \in RowSeqs :
          /\ srcRows' = rs
          /\ output' = RenderAll(rs)
          /\ lines' = NonBlankLines(RenderAll(rs))
          /\ pc' = IF Len(NonBlankLines(RenderAll(rs))) <= 1 THEN "done" ELSE "loop"
    /\ lsofRuns' = lsofRuns + 1
    /\ idx' = 1
    /\ headerSkipped' = FALSE
    /\ entries' = <<>>
    /\ cResult' = <<>>
    /\ UNCHANGED <<cStderr, cur, disp, cExc, cMsg>>
    /\ UNCHANGED <<cacheVars, resolverVars, splitVars, killVars, resolveVars, apiVars, threadVars>>

\* The loop leaves a line without a record.
Skip(why) ==
    /\ idx' = idx + 1
    /\ disp' = Append(disp, why)
    /\ UNCHANGED <<pc, srcRows, output, cStderr, lines, cur, entries, cExc, cMsg,
                   cResult, lsofRuns>>
    /\ UNCHANGED <<cacheVars, resolverVars, splitVars, killVars, resolveVars, apiVars, threadVars>>

\* Lines 94-96: the first line is the header.
SkipHeader ==
    /\ pc = "loop" /\ idx <= Len(lines)
    /\ ~headerSkipped
    /\ headerSkipped' = TRUE
    /\ Skip("header")

\* Lines 98-101: too few columns.
SkipShort ==
    /\ pc = "loop" /\ idx <= Len(lines)
    /\ headerSkipped
    /\ TooFewParts(SplitWs(lines[idx]))
    /\ UNCHANGED headerSkipped
    /\ Skip("short")

\* Lines 115-119: int(pid_str) raises ValueError.
SkipBadPid ==
    /\ pc = "loop" /\ idx <= Len(lines)
    /\ headerSkipped
    /\ ~TooFewParts(SplitWs(lines[idx]))
    /\ ~PidAccepted(SplitWs(lines[idx])[2])
    /\ UNCHANGED headerSkipped
    /\ Skip("badpid")

\* Lines 103-121: the row is taken apart and _get_process_details is called.
RowDetails ==
    /\ pc = "loop" /\ idx <= Len(lines)
    /\ headerSkipped
    /\ ~TooFewParts(SplitWs(lines[idx]))
    /\ PidAccepted(SplitWs(lines[idx])[2])
    /\ cur' = RowLocals(SplitWs(lines[idx]))
    /\ pc' = "details"
    /\ StartResolver("details", IntOf(SplitWs(lines[idx])[2]))
    /\ UNCHANGED <<srcRows, output, cStderr, lines, idx, headerSkipped, entries,
                   disp, cExc, cMsg, cResult, lsofRuns>>
    /\ UNCHANGED <<cacheVars, splitVars, killVars, resolveVars, apiVars, threadVars>>

\* Lines 123-144: _get_process_details returned and the record is appended.
RowAppend ==
    /\ pc = "details" /\ dPc = "returned"
    /\ entries' = AppendEntry(entries, MakeEntry(cur, dOut))
    /\ disp' = Append(disp, "record")
    /\ idx' = idx + 1
    /\ pc' = "loop"
    /\ cur' = NoLocals
    /\ lookups' = <<>>
    /\ dOp' = "none"
    /\ dPc' = "idle"
    /\ dPid' = 0
    /\ dExc' = "none"
    /\ dOut' = NoDetails
    /\ UNCHANGED <<srcRows, output, cStderr, lines, headerSkipped, cExc, cMsg,
                   cResult, lsofRuns>>
    /\ UNCHANGED <<cacheVars, splitVars, killVars, resolveVars, apiVars, threadVars>>

\* _get_process_details raised: nothing catches it on the way out of collect_ports.
RowRaise ==
    /\ pc = "details" /\ dPc = "raised"
    /\ pc' = "raised"
    /\ cExc' = dExc
    /\ UNCHANGED <<srcRows, output, cStderr, lines, idx, headerSkipped, cur, entries,
                   disp, cMsg, cResult, lsofRuns>>
    /\ UNCHANGED <<cacheVars, resolverVars, splitVars, killVars, resolveVars, apiVars, threadVars>>

\* Line 146, and line 176: the list is returned.
ParseReturn ==
    /\ pc = "loop" /\ idx > Len(lines)
    /\ pc' = "done"
    /\ cResult' = entries
    /\ UNCHANGED <<srcRows, output, cStderr, lines, idx, headerSkipped, cur, entries,
                   disp, cExc, cMsg, lsofRuns>>
    /\ UNCHANGED <<cacheVars, resolverVars, splitVars, killVars, resolveVars, apiVars, threadVars>>

(***************************************************************************)
(* kill_process, one step per os.kill.                                     *)
(***************************************************************************)

KillCall ==
    /\ kPc \in {"idle", "done"}
    /\ \E p \in KillPids, sg \in Signals :
          /\ kPid' = p
          /\ kSig' = sg
    /\ kPc' = "trying"
    /\ kLog' = <<>>
    /\ kStatus' = "none"
    /\ kDesc' = <<>>
    /\ UNCHANGED <<splitVars, cacheVars, resolverVars, collectVars, resolveVars, apiVars, threadVars>>

\* Lines 312-319: os.kill, and the except clause its exception reaches.
KillDeliver ==
    /\ kPc = "trying"
    /\ \E out \in KillOutcomes :
          /\ kLog' = Append(kLog, <<kPid, kSig, out>>)
          /\ kStatus' = KillStatus(out)
          /\ kDesc' = KillDescription(out)
    /\ kPc' = "done"
    /\ UNCHANGED <<kPid, kSig>>
    /\ UNCHANGED <<splitVars, cacheVars, resolverVars, collectVars, resolveVars, apiVars, threadVars>>

(***************************************************************************)
(* resolve_run_port, one step per bind of find_available_port.             *)
(***************************************************************************)

\* Lines 61-66, and the start of find_available_port (lines 31-32).
ResolveCall ==
    /\ rPc \in {"idle", "returned", "raised"}
    /\ \E p \in Preferreds : rPreferred' = p
    /\ rEnv0' = env
    /\ binds' = <<>>
    /\ rExc' = "none"
    /\ IF AssignedUsable(env)
       THEN /\ rPc' = "returned"
            /\ rResult' = IntOf(env[1])
            /\ UNCHANGED <<env, candidate, attempts>>
       ELSE /\ rPc' = "probe"
            /\ env' = EnvAfterRead(env)
            /\ candidate' = rPreferred'
            /\ attempts' = 0
            /\ rResult' = 0
    /\ UNCHANGED <<splitVars, cacheVars, resolverVars, collectVars, killVars, apiVars, threadVars>>

\* The loop is over: RuntimeError (line 42).
ProbeGiveUp ==
    /\ rPc = "probe"
    /\ ~(attempts < MaxAttempts)
    /\ rPc' = "raised"
    /\ rExc' = "RuntimeError"
    /\ UNCHANGED <<env, rPreferred, rEnv0, candidate, attempts, binds, rResult>>
    /\ UNCHANGED <<splitVars, cacheVars, resolverVars, collectVars, killVars, apiVars, threadVars>>

\* sock.bind raises OverflowError for a port outside 0..65535: not an OSError.
ProbeOverflow ==
    /\ rPc = "probe"
    /\ attempts < MaxAttempts
    /\ candidate \notin 0..MaxPort
    /\ binds' = Append(binds, candidate)
    /\ rPc' = "raised"
    /\ rExc' = "OverflowError"
    /\ UNCHANGED <<env, rPreferred, rEnv0, candidate, attempts, rResult>>
    /\ UNCHANGED <<splitVars, cacheVars, resolverVars, collectVars, killVars, apiVars, threadVars>>

\* sock.bind raises OSError: the next candidate (lines 39-41).
ProbeBusy ==
    /\ rPc = "probe"
    /\ attempts < MaxAttempts
    /\ candidate \in 0..MaxPort
    /\ binds' = Append(binds, candidate)
    /\ candidate' = NextCandidate(candidate)
    /\ attempts' = attempts + 1
    /\ UNCHANGED <<env, rPc, rPreferred, rEnv0, rResult, rExc>>
    /\ UNCHANGED <<splitVars, cacheVars, resolverVars, collectVars, killVars, apiVars, threadVars>>

\* sock.bind returns: the port is stored in the variable and returned
\* (line 38, lines 69-72).
ProbeFree ==
    /\ rPc = "probe"
    /\ attempts < MaxAttempts
    /\ candidate \in 0..MaxPort
    /\ binds' = Append(binds, candidate)
    /\ env' = StoredText(candidate)
    /\ rResult' = candidate
    /\ rPc' = "returned"
    /\ UNCHANGED <<rPreferred, rEnv0, candidate, attempts, rExc>>
    /\ UNCHANGED <<splitVars, cacheVars, resolverVars, collectVars, killVars, apiVars, threadVars>>

(***************************************************************************)
(* api_kill and api_force_kill (src/app.py:206-233): the request is        *)
(* answered with 400 before any signal, or _kill_process is called with    *)
(* int(pid) and the signal of the route.                                   *)
(***************************************************************************)

\* Lines 208-216 (222-230): the body is read and the pid converted.
ApiRequest ==
    /\ aPc \in {"idle", "responded"}
    /\ \E route \in Routes, b \in Bodies :
          /\ aRoute' = route
          /\ aBody' = b
          /\ IF b.kind = "notdict" \/ PidMissing(b) \/ ~PidConverts(b)
             THEN /\ aPc' = "responded"
                  /\ aStatus' = IF b.kind = "notdict" THEN "500" ELSE "400"
                  /\ kPc' = "idle"
                  /\ kPid' = 0
                  /\ kSig' = 0
             ELSE /\ aPc' = "killing"
                  /\ aStatus' = "none"
                  /\ kPc' = "trying"
                  /\ kPid' = PidInt(b)
                  /\ kSig' = RouteSignal(route)
    /\ kLog' = <<>>
    /\ kStatus' = "none"
    /\ kDesc' = <<>>
    /\ UNCHANGED <<splitVars, cacheVars, resolverVars, collectVars, resolveVars, threadVars>>

\* Line 217 (231): _kill_process returned, or aborted with its status.
ApiRespond ==
    /\ aPc = "killing"
    /\ kPc = "done"
    /\ aStatus' = IF kStatus = "ok" THEN "200" ELSE kStatus
    /\ aPc' = "responded"
    /\ UNCHANGED <<aRoute, aBody>>
    /\ UNCHANGED <<splitVars, cacheVars, resolverVars, collectVars, killVars, resolveVars, threadVars>>

(***************************************************************************)
(* _get_process_field called by several threads.  The lru_cache wrapper    *)
(* looks the key up under its lock, calls the wrapped function without the *)
(* lock, and stores the result under the lock again, unless the key was    *)
(* stored in the meantime.                                                 *)
(***************************************************************************)

\* A thread calls _get_process_field: a hit returns the cached value, a miss
\* goes on to the wrapped function.
ThreadCall ==
    \E t \in Threads :
        /\ tPc[t] \in {"idle", "returned", "raised"}
        /\ \E k \in ThreadKeys :
              /\ tKey' = [tKey EXCEPT ![t] = k]
              /\ IF CacheHas(fieldCache, k)
                 THEN /\ fieldCache' = CacheTouch(fieldCache, k)
                      /\ tVal' = [tVal EXCEPT ![t] = CacheGet(fieldCache, k)]
                      /\ tPc' = [tPc EXCEPT ![t] = "returned"]
                 ELSE /\ fieldCache' = fieldCache
                      /\ tVal' = [tVal EXCEPT ![t] = <<>>]
                      /\ tPc' = [tPc EXCEPT ![t] = "running"]
        /\ tExc' = [tExc EXCEPT ![t] = "none"]
        /\ UNCHANGED cwdCache
        /\ UNCHANGED <<splitVars, resolverVars, collectVars, killVars, resolveVars, apiVars>>

\* The wrapped function runs ps (lines 193-203), outside the lock.
ThreadRun ==
    \E t \in Threads :
        /\ tPc[t] = "running"
        /\ \E o \in PsOutcomes(tKey[t][2]) :
              LET body == GetProcessFieldBody(o)
              IN  /\ fieldCache' = [fieldCache EXCEPT !.runs[tKey[t]] =
                                        @ + (IF body.spawned THEN 1 ELSE 0)]
                  /\ tExc' = [tExc EXCEPT ![t] = body.exc]
                  /\ tVal' = [tVal EXCEPT ![t] = body.val]
                  /\ tPc' = [tPc EXCEPT ![t] =
                                IF body.exc # "none" THEN "raised" ELSE "store"]
        /\ UNCHANGED <<cwdCache, tKey>>
        /\ UNCHANGED <<splitVars, resolverVars, collectVars, killVars, resolveVars, apiVars>>

\* The wrapper stores the result, unless another thread stored the key while
\* the function ran, and returns it.
ThreadStore ==
    \E t \in Threads :
        /\ tPc[t] = "store"
        /\ fieldCache' = IF CacheHas(fieldCache, tKey[t])
                         THEN fieldCache
                         ELSE CacheStore(fieldCache, tKey[t], tVal[t])
        /\ tPc' = [tPc EXCEPT ![t] = "returned"]
        /\ UNCHANGED <<cwdCache, tKey, tVal, tExc>>
        /\ UNCHANGED <<splitVars, resolverVars, collectVars, killVars, resolveVars, apiVars>>

(***************************************************************************)
(* SpecSplit: _split_host_port applied to every address of Addresses.      *)
(***************************************************************************)

InitAll ==
    /\ SplitIdle /\ CachesEmpty /\ ResolverIdle /\ CollectIdle /\ KillIdle
    /\ ApiIdle /\ ThreadsIdle

InitSplit == InitAll /\ ResolveIdle /\ env = <<>>

SplitCall ==
    /\ spPc = "idle"
    /\ \E a \in Addresses :
          /\ spAddr' = a
          /\ spOut' = SplitHostPort(a)
    /\ spPc' = "done"
    /\ UNCHANGED <<cacheVars, resolverVars, collectVars, killVars, resolveVars, apiVars, threadVars>>

SplitReturn ==
    /\ spPc = "done"
    /\ spPc' = "idle"
    /\ spAddr' = <<>>
    /\ spOut' = [host |-> <<>>, port |-> <<>>]
    /\ UNCHANGED <<cacheVars, resolverVars, collectVars, killVars, resolveVars, apiVars, threadVars>>

NextSplit == SplitCall \/ SplitReturn

SpecSplit == InitSplit /\ [][NextSplit]_vars

(***************************************************************************)
(* SpecResolver: any sequence of calls of _get_process_details,            *)
(* _get_parent_pid, _get_process_command and _get_process_cwd, one after   *)
(* the other, each utility answering anything it can answer.               *)
(***************************************************************************)

InitResolver == InitAll /\ ResolveIdle /\ env = <<>>

\* The caller makes the next call once the last one has ended.
ResolverCall ==
    /\ pc # "details"
    /\ dPc \in {"idle", "returned", "raised"}
    /\ \E op \in {"details", "ppid", "command", "cwd"}, p \in ResolverPids :
          StartResolver(op, p)
    /\ UNCHANGED <<splitVars, cacheVars, collectVars, killVars, resolveVars, apiVars, threadVars>>

NextResolver == ResolverCall \/ LookupPpid \/ LookupCommand \/ LookupCwd

SpecResolver == InitResolver /\ [][NextResolver]_vars

(***************************************************************************)
(* SpecCollect: one call of collect_ports from a fresh process, for every  *)
(* lsof output of RowSeqs and every answer of the utilities.               *)
(***************************************************************************)

InitCollect == InitAll /\ ResolveIdle /\ env = <<>>

NextCollect ==
    \/ CollectNoLsof
    \/ CollectLsofFails
    \/ CollectLsofOk
    \/ SkipHeader
    \/ SkipShort
    \/ SkipBadPid
    \/ RowDetails
    \/ LookupPpid
    \/ LookupCommand
    \/ LookupCwd
    \/ RowAppend
    \/ RowRaise
    \/ ParseReturn

SpecCollect == InitCollect /\ [][NextCollect]_vars

(***************************************************************************)
(* SpecKill: any sequence of calls of kill_process.                        *)
(***************************************************************************)

InitKill == InitAll /\ ResolveIdle /\ env = <<>>

NextKill == KillCall \/ KillDeliver

SpecKill == InitKill /\ [][NextKill]_vars

(***************************************************************************)
(* SpecResolve: any sequence of calls of resolve_run_port in one process,  *)
(* whatever PORTER_ASSIGNED_PORT was when the process started and whichever*)
(* ports are free at each bind.                                            *)
(***************************************************************************)

InitResolve == InitAll /\ ResolveIdle /\ env \in EnvStart

NextResolve == ResolveCall \/ ProbeGiveUp \/ ProbeOverflow \/ ProbeBusy \/ ProbeFree

SpecResolve == InitResolve /\ [][NextResolve]_vars

(***************************************************************************)
(* SpecResolveFresh: as SpecResolve, in a process that starts without      *)
(* PORTER_ASSIGNED_PORT.                                                   *)
(***************************************************************************)

InitResolveFresh == InitAll /\ ResolveIdle /\ env = <<>>

SpecResolveFresh == InitResolveFresh /\ [][NextResolve]_vars

(***************************************************************************)
(* SpecThreads: the threads of parallel inventory requests call            *)
(* _get_process_field in any interleaving.                                 *)
(***************************************************************************)

InitThreads == InitAll /\ ResolveIdle /\ env = <<>>

NextThreads == ThreadCall \/ ThreadRun \/ ThreadStore

SpecThreads == InitThreads /\ [][NextThreads]_vars

(***************************************************************************)
(* SpecApi: any sequence of requests to /api/kill and /api/force-kill.     *)
(***************************************************************************)

InitApi == InitAll /\ ResolveIdle /\ env = <<>>

NextApi == ApiRequest \/ KillDeliver \/ ApiRespond

SpecApi == InitApi /\ [][NextApi]_vars

(***************************************************************************)
(* Properties.                                                             *)
(***************************************************************************)

\* The non-blank lines lsof wrote, as their tokens: line i of lines is row i of these.
SrcData ==
    LET NotBlank(r) == r.toks # <<>>
    IN  SelectSeq(srcRows, NotBlank)

\* How many of the lines 1..i the loop has left became records.
RecordsUpTo(i) == Cardinality({j \in 1..i : disp[j] = "record"})

\* The eight fixed columns of a record, as a row of tokens.
FixedOf(e) ==
    <<e.command, StrOf(e.pid), e.user, e.fd, e.type, e.details.device,
      e.details.size_off, e.details.node>>

\* C1: every record parse has produced has a pid of at least 1.
C1_PidPositive == \A i \in 1..Len(entries) : entries[i].pid >= 1

Survivors ==
    LET Kept(r) == Len(r.toks) >= 9 /\ IntParses(r.toks[2])
    IN  IF SrcData = <<>> THEN <<>> ELSE SelectSeq(Tail(SrcData), Kept)

\* C3: when parse returns, its list has one record per surviving row, in the
\* order of the rows, each with the columns of its row; nothing is merged,
\* reordered or left out, and an input without data rows gives the empty list.
C3_OneRecordPerRowInOrder ==
    pc = "done" =>
        /\ Len(cResult) = Len(Survivors)
        /\ \A k \in 1..Len(cResult) :
              /\ FixedOf(cResult[k]) = SubSeq(Survivors[k].toks, 1, 8)
              /\ cResult[k].protocol = Survivors[k].toks[8]
        /\ Len(SrcData) <= 1 => cResult = <<>>

\* C3's case: two identical rows gave two identical records, after a dropped row.
C3_Witness ==
    /\ pc = "done"
    /\ Len(cResult) = 2
    /\ cResult[1] = cResult[2]
    /\ Len(SrcData) = 3

Min(S) == CHOOSE x \in S : \A y \in S : x <= y
Max(S) == CHOOSE x \in S : \A y \in S : x >= y

\* The (host, port) the claim describes, by positions: the text before the
\* first arrow; inside and after the first bracket pair; around the last colon.
RefSplit(a) ==
    LET arrows == {i \in 1..(Len(a) - 1) : a[i] = "-" /\ a[i + 1] = ">"}
        t == IF arrows = {} THEN a ELSE [i \in 1..(Min(arrows) - 1) |-> a[i]]
        closes == {i \in 1..Len(t) : t[i] = "]"}
        colons == {i \in 1..Len(t) : t[i] = ":"}
        raw == IF Len(t) >= 1 /\ t[1] = "[" /\ closes # {}
               THEN LET c == Min(closes)
                    IN  [host |-> [i \in 1..(c - 2) |-> t[i + 1]],
                         port |-> IF c < Len(t) /\ t[c + 1] = ":"
                                  THEN [i \in 1..(Len(t) - c - 1) |-> t[i + c + 1]]
                                  ELSE <<>>]
               ELSE IF colons # {}
               THEN LET k == Max(colons)
                    IN  [host |-> [i \in 1..(k - 1) |-> t[i]],
                         port |-> [i \in 1..(Len(t) - k) |-> t[i + k]]]
               ELSE [host |-> t, port |-> <<>>]
    IN  [host |-> IF raw.host = <<>> THEN a ELSE raw.host, port |-> raw.port]

\* C4: _split_host_port returns the host and port of the reference, for every address.
C4_SplitMatchesReference ==
    spPc = "done" =>
        /\ spOut.host = RefSplit(spAddr).host
        /\ spOut.port = RefSplit(spAddr).port

\* C4's case: a bracketed local endpoint with a port, before an arrow.
C4_Witness ==
    /\ spPc = "done"
    /\ spAddr = <<"[", ":", ":", "1", "]", ":", "8", "0", "-", ">">>
    /\ spOut = [host |-> <<":", ":", "1">>, port |-> <<"8", "0">>]

\* C5: the port of every record is digits only, the wildcard, or empty.
C5_PortNumericWildcardOrEmpty ==
    \A i \in 1..Len(entries) :
        \/ entries[i].port = <<>>
        \/ entries[i].port = <<"*">>
        \/ IsDigitStr(entries[i].port)

\* C6: a call of _get_process_details never ends in an exception, whatever the
\* utilities answer.
C6_DetailsNeverRaises == dOp = "details" => dPc # "raised"

\* The cache a lookup of the log went to.
CacheOf(l) == IF l.cache = "field" THEN fieldCache ELSE cwdCache

\* C7: a lookup of a cached key runs no utility and returns the value the first
\* lookup of that entry returned; every lookup that returns leaves that value
\* in the cache; and between two evictions of a key the utility is spawned at
\* most once for it.
C7_CachedLookupReusesFirstValue ==
    /\ \A k \in FieldKeys : fieldCache.runs[k] <= 1
    /\ \A k \in CwdKeys : cwdCache.runs[k] <= 1
    /\ \A i \in 1..Len(lookups) : lookups[i].had => ~lookups[i].spawned
    /\ lookups # <<>> =>
          LET l == lookups[Len(lookups)]
              c == CacheOf(l)
          IN  /\ l.had => l.exc = "none"
              /\ l.exc = "none" =>
                    /\ CacheHas(c, l.key)
                    /\ c.ents[CacheIndex(c, l.key)].first = l.val
                    /\ CacheGet(c, l.key) = l.val

\* C7's case: a lookup hit a full cache and got a non-empty value without a spawn.
C7_Witness ==
    /\ lookups # <<>>
    /\ lookups[Len(lookups)].had
    /\ lookups[Len(lookups)].val # <<>>
    /\ lookups[Len(lookups)].cache = "field"
    /\ Len(fieldCache.ents) = CacheSize
    /\ \E k \in FieldKeys : ~CacheHas(fieldCache, k) /\ fieldCache.runs[k] = 0

\* Whether m is s without the whitespace around it.
IsTrimOf(m, s) ==
    \E i \in 1..Len(s) : \E j \in i..Len(s) :
        /\ m = SubSeq(s, i, j)
        /\ ~IsSpace(s[i]) /\ ~IsSpace(s[j])
        /\ \A k \in 1..Len(s) : (k < i \/ k > j) => IsSpace(s[k])

\* C8: a call of collect_ports spawns lsof for the inventory once, or not at
\* all when lsof is not found; a failed call raises PortFetchError with the
\* missing-utility message, the text of stderr, or the generic message when
\* stderr holds no text, and returns no records.
C8_CollectOnceOrFail ==
    /\ lsofRuns <= 1
    /\ pc \in {"loop", "details", "done", "raised"} => lsofRuns = 1
    /\ pc = "failed" =>
          /\ cExc = "PortFetchError"
          /\ cResult = <<>> /\ entries = <<>>
          /\ lsofRuns = 0 => cMsg = LsofMissingMsg
          /\ lsofRuns = 1 =>
                IF \E k \in 1..Len(cStderr) : ~IsSpace(cStderr[k])
                THEN IsTrimOf(cMsg, cStderr)
                ELSE cMsg = GenericMsg

\* C8's case: lsof ran once, failed without a word, and the call failed with
\* the generic message.
C8_Witness ==
    /\ pc = "failed"
    /\ lsofRuns = 1
    /\ cStderr = <<>>
    /\ cMsg = GenericMsg

\* C9: a call of kill_process makes one os.kill attempt, for its pid and signal,
\* and ends in the outcome of that attempt: success, 404 for no such process,
\* 403 for a missing privilege, 500 with the text of any other failure.
C9_OneAttemptClassified ==
    /\ kPc = "trying" => kLog = <<>>
    /\ kPc = "done" =>
          /\ Len(kLog) = 1
          /\ kLog[1][1] = kPid /\ kLog[1][2] = kSig
          /\ (kStatus = "ok") <=> (kLog[1][3] = "ok")
          /\ (kStatus = "404") <=> (kLog[1][3] = "ProcessLookupError")
          /\ (kStatus = "403") <=> (kLog[1][3] = "PermissionError")
          /\ (kStatus = "500") <=>
                (kLog[1][3] \notin {"ok", "ProcessLookupError", "PermissionError"})
          /\ kStatus = "500" => kDesc[Len(kDesc)] = kLog[1][3]

\* C9's case: the one attempt failed for a missing privilege.
C9_Witness ==
    /\ kPc = "done"
    /\ kStatus = "403"
    /\ kLog = << <<kPid, kSig, "PermissionError">> >>

\* Decimal text: digits, or a minus sign and digits.
IsNumericText(t) ==
    \/ IsDigitStr(t)
    \/ (Len(t) >= 2 /\ t[1] = "-" /\ IsDigitStr(Tail(t)))

\* C10: a call of resolve_run_port that finds a numeric PORTER_ASSIGNED_PORT
\* returns that number, binds nothing and leaves the variable as it was.
C10_PersistedPortReturnedUnprobed ==
    (rPc # "idle" /\ rEnv0 # <<>> /\ IsNumericText(rEnv0[1])) =>
        /\ rPc = "returned"
        /\ rEnv0 = <<StrOf(rResult)>>
        /\ binds = <<>>
        /\ env = rEnv0

\* C10's case: a port stored by an earlier call that had to probe past the
\* preferred port is returned by a later call without a bind.
C10_Witness ==
    /\ rPc = "returned"
    /\ rEnv0 = << <<"5", "0", "0", "1">> >>
    /\ rResult = 5001
    /\ binds = <<>>
    /\ rPreferred = 65530

\* C11: a call of resolve_run_port that finds no usable PORTER_ASSIGNED_PORT
\* binds preferred, preferred + 1, ... in that order, each once, at most
\* MaxAttempts of them; every bind before the last one failed; and the port it
\* returns is the last one it bound, the first that was free.
C11_ProbesInOrderFromPreferred ==
    (rPc # "idle" /\ ~(rEnv0 # <<>> /\ rEnv0[1] # <<>> /\ IntParses(rEnv0[1]))) =>
        /\ Len(binds) <= MaxAttempts
        /\ \A i \in 1..Len(binds) : binds[i] = rPreferred + i - 1
        /\ rPc = "probe" => attempts = Len(binds)
        /\ rPc = "returned" =>
              /\ binds # <<>>
              /\ attempts = Len(binds) - 1
              /\ rResult = binds[Len(binds)]

\* C11's case: preferred .. preferred + 2 were busy and preferred + 3 was free.
C11_Witness ==
    /\ rPc = "returned"
    /\ rEnv0 = <<>>
    /\ rPreferred = 5000
    /\ binds = <<5000, 5001, 5002, 5003>>
    /\ rResult = 5003

\* C12: a call of resolve_run_port makes at most MaxAttempts binds, none of
\* them at preferred + MaxAttempts or above, and a call in which no bind
\* succeeds ends in RuntimeError (NoPortAvailable) after exactly MaxAttempts
\* binds.
C12_GivesUpAfterFiftyBinds ==
    /\ Len(binds) <= MaxAttempts
    /\ \A i \in 1..Len(binds) : binds[i] < rPreferred + MaxAttempts
    /\ rPc = "raised" =>
          /\ rExc = "RuntimeError"
          /\ Len(binds) = MaxAttempts
          /\ attempts = MaxAttempts

\* C13: a call of resolve_run_port with a preferred port in 0..65535 returns a
\* number in 0..65535 or raises RuntimeError (NoPortAvailable), nothing else.
C13_PortInRangeOrNoPortAvailable ==
    /\ rPc = "returned" => rResult \in 0..MaxPort
    /\ rPc = "raised" => rExc = "RuntimeError"

\* C14: in a process that starts without PORTER_ASSIGNED_PORT, the variable is
\* written at most once: a step changes it only when a call that probed returns,
\* to the decimal text of the port returned; a call that raises leaves it as it
\* was; and once it is set no step changes it.
C14_StateWrittenAtMostOnce ==
    [][ /\ env # <<>> => env' = env
        /\ env' # env =>
              /\ rPc' = "returned"
              /\ binds' # <<>>
              /\ env' = <<StrOf(rResult')>>
        /\ rPc' = "raised" => env' = env ]_vars

\* C14's case: a first call stored 65531, and a later call, for another
\* preferred port, returned it and left the variable alone.
C14_Witness ==
    /\ rPc = "returned"
    /\ rPreferred = 5000
    /\ rEnv0 = << <<"6", "5", "5", "3", "1">> >>
    /\ env = rEnv0
    /\ rResult = 65531
    /\ binds = <<>>

\* What C15 promises of a call that found a value it discards: nothing stays in
\* the variable while it probes from preferred or when it raises, and a call
\* that returns has probed and stored the port it returns.
ProbedAsIfAbsent(left) ==
    /\ \A i \in 1..Len(binds) : binds[i] = rPreferred + i - 1
    /\ rPc \in {"probe", "raised"} => env = left
    /\ rPc = "returned" =>
          /\ binds # <<>>
          /\ rResult = binds[Len(binds)]
          /\ env = <<StrOf(rResult)>>

\* C15 as claimed: a call of resolve_run_port that finds PORTER_ASSIGNED_PORT
\* set to a value that is not a number removes it, probes from preferred, and
\* leaves the new port in the variable, or nothing when it raises.
C15_NonNumericRemoved ==
    (rPc # "idle" /\ rEnv0 # <<>> /\ ~IntParses(rEnv0[1])) => ProbedAsIfAbsent(<<>>)

\* C15 as amended: the same, for a value that is not empty and that int()
\* rejects; an empty value is not removed: the call probes from preferred and
\* the variable stays empty until a port is stored.
C15_RejectedValueRemoved ==
    /\ (rPc # "idle" /\ rEnv0 # <<>> /\ rEnv0[1] # <<>> /\ ~IntParses(rEnv0[1]))
          => ProbedAsIfAbsent(<<>>)
    /\ (rPc # "idle" /\ rEnv0 = << <<>> >>) => ProbedAsIfAbsent(rEnv0)

\* C15's case: the value "abc" was removed and no port was free: the variable
\* is unset when the call raises.
C15_Witness ==
    /\ rPc = "raised"
    /\ rExc = "RuntimeError"
    /\ rEnv0 = << <<"a", "b", "c">> >>
    /\ env = <<>>
    /\ Len(binds) = MaxAttempts

\* Between a cache c and the cache c2 a step leaves, every entry of c is still
\* there with its value, or the step stored a new key in a full cache and the
\* entry was the least recently used one.
EntriesKept(c, c2) ==
    \A k \in CacheKeys(c) :
        \/ CacheHas(c2, k) /\ CacheGet(c2, k) = CacheGet(c, k)
        \/ /\ Len(c.ents) = CacheSize
           /\ c.ents[1].key = k
           /\ CacheKeys(c2) \ CacheKeys(c) # {}

\* C16: no step of the resolver removes or changes a cached entry, but the
\* eviction of the oldest entry by a new key in a full cache; and a lookup of
\* a cached key returns the cached value, an empty one included, whatever the
\* utility would answer now.
C16_NoInvalidation ==
    [][ /\ EntriesKept(fieldCache, fieldCache')
        /\ EntriesKept(cwdCache, cwdCache')
        /\ Len(lookups') = Len(lookups) + 1 =>
              LET l == lookups'[Len(lookups')]
                  c == IF l.cache = "field" THEN fieldCache ELSE cwdCache
              IN  CacheHas(c, l.key) =>
                    /\ l.had /\ ~l.spawned /\ l.exc = "none"
                    /\ l.val = CacheGet(c, l.key) ]_vars

\* C16's case: a lookup of cwd returned the empty value cached for a failure.
C16_Witness ==
    /\ lookups # <<>>
    /\ lookups[Len(lookups)].cache = "cwd"
    /\ lookups[Len(lookups)].had
    /\ lookups[Len(lookups)].val = <<>>
    /\ CacheGet(cwdCache, lookups[Len(lookups)].key) = <<>>

\* The lookup a step made, if it made one.
StepLooksUp == Len(lookups') = Len(lookups) + 1

\* C17 as claimed: a lookup of one of ppid, command and cwd never evicts or
\* changes a cached entry of another of the three.
C17_FieldsNeverEvictEachOther ==
    [][ StepLooksUp =>
          LET l == lookups'[Len(lookups')]
          IN  /\ l.cache = "cwd" => fieldCache' = fieldCache
              /\ l.cache = "field" =>
                    /\ cwdCache' = cwdCache
                    /\ \A k \in CacheKeys(fieldCache) :
                          k[2] # l.key[2] =>
                             /\ CacheHas(fieldCache', k)
                             /\ CacheGet(fieldCache', k) = CacheGet(fieldCache, k) ]_vars

\* C17 as amended: cwd has a cache of its own, which no ppid or command lookup
\* touches and whose lookups touch no ppid or command entry; ppid and command
\* share one cache of CacheSize entries: a lookup of one never changes the
\* value of an entry of the other, and removes one only as the least recently
\* used entry of the full cache, when it stores a key that was not cached.
C17_CwdApartFieldsShared ==
    [][ StepLooksUp =>
          LET l == lookups'[Len(lookups')]
          IN  /\ l.cache = "cwd" => fieldCache' = fieldCache
              /\ l.cache = "field" =>
                    /\ cwdCache' = cwdCache
                    /\ Len(fieldCache'.ents) <= CacheSize
                    /\ \A k \in CacheKeys(fieldCache) :
                          \/ /\ CacheHas(fieldCache', k)
                             /\ CacheGet(fieldCache', k) = CacheGet(fieldCache, k)
                          \/ /\ ~CacheHas(fieldCache, l.key)
                             /\ CacheHas(fieldCache', l.key)
                             /\ Len(fieldCache.ents) = CacheSize
                             /\ k = fieldCache.ents[1].key ]_vars

\* C17's case: a call of _get_process_details missed three times: it filled the
\* shared cache with ppid and command, then stored cwd, and both are still there.
C17_Witness ==
    /\ dPc = "returned" /\ dOp = "details"
    /\ Len(lookups) = 3
    /\ \A i \in 1..3 : ~lookups[i].had
    /\ lookups[3].cache = "cwd"
    /\ Len(fieldCache.ents) = CacheSize
    /\ CacheHas(fieldCache, lookups[1].key)
    /\ CacheHas(fieldCache, lookups[2].key)
    /\ CacheHas(cwdCache, lookups[3].key)

\* The cache holds one entry per key and no more than its capacity.
CacheWellFormed(c) ==
    /\ Len(c.ents) <= CacheSize
    /\ Cardinality(CacheKeys(c)) = Len(c.ents)

\* Every value a step puts in the cache is the value a thread computed for
\* that key and is about to store.
StoredByARacer ==
    \A k \in ThreadKeys :
        ( /\ CacheHas(fieldCache', k)
          /\ ~CacheHas(fieldCache, k) \/ CacheGet(fieldCache', k) # CacheGet(fieldCache, k) )
        => \E t \in Threads :
              tPc[t] = "store" /\ tKey[t] = k /\ tVal[t] = CacheGet(fieldCache', k)

\* C18: whatever the interleaving of the threads, every lookup returns a
\* result, the cache holds one entry per key and no more than its capacity,
\* and the entry of a key is the result of one of the lookups that raced for it.
C18_ParallelLookupsSafe ==
    /\ [](\A t \in Threads : tPc[t] # "raised")
    /\ []CacheWellFormed(fieldCache)
    /\ [][StoredByARacer]_vars

\* What the race does leave: the cache is well formed, every entry was stored
\* by one of the racing lookups, and a lookup that finds its key stored when it
\* comes to store leaves the entry of the first writer.
RaceKeepsFirstWriter ==
    /\ []CacheWellFormed(fieldCache)
    /\ [][ /\ StoredByARacer
           /\ \A t \in Threads :
                 ( /\ tPc[t] = "store" /\ tPc'[t] = "returned"
                   /\ CacheHas(fieldCache, tKey[t]) )
                 => fieldCache' = fieldCache ]_vars

\* Whether the body gives an integer for pid: a JSON integer, or a string that
\* is the text of one.
PidIsInteger(b) == b.kind = "int" \/ (b.kind = "str" /\ IntParses(b.text))

\* C19: a request to the kill entry points makes os.kill attempts only for a
\* pid of at least 1, and none at all when its pid is missing or no integer.
C19_SignalsOnlyPositivePids ==
    /\ \A i \in 1..Len(kLog) : kLog[i][1] >= 1
    /\ (aPc # "idle" /\ ~PidIsInteger(aBody)) => kLog = <<>>

====
